---- MODULE Spec2Model ----
(***************************************************************************)
(* Model of the dynamic histogram collector of src/dynhist.go.             *)
(*                                                                         *)
(* A Collector keeps an ordered list of buckets; Add places a value and,   *)
(* in its deferred function, merges the adjacent pair of least weight when *)
(* the list is longer than BucketsLimit.  Percentile and PercentileSum     *)
(* scan the list; LoadFromRuntimeMetrics replaces it.  Every method holds  *)
(* the collector's mutex for its whole body, so each is one atomic action. *)
(*                                                                         *)
(* float64 values are modelled by integers (exact arithmetic) extended     *)
(* with +Inf, -Inf and NaN, with the IEEE-754 rules for them.              *)
(***************************************************************************)
EXTENDS Integers, Sequences, FiniteSets

\* ------------------------------------------------------------------ bounds
MaxVal == 2
MaxAdds == 5
MaxLimit == 3
MaxCount == 2
MaxRaw == 3
NumGoroutines == 2
MaxCalls == 2

\* --------------------------------------------------------------- constants
DefaultBucketsLimit == 20

\* ------------------------------------------------------- float64 arithmetic
PosInf == 1000
NegInf == 0 - PosInf
NaN == 2 * PosInf

IsInf(a) == a = PosInf \/ a = NegInf

FLt(a, b) == a # NaN /\ b # NaN /\ a < b
FLe(a, b) == a # NaN /\ b # NaN /\ a <= b
FGt(a, b) == a # NaN /\ b # NaN /\ a > b
FGe(a, b) == a # NaN /\ b # NaN /\ a >= b
FEq(a, b) == a # NaN /\ b # NaN /\ a = b

FNeg(a) == IF a = NaN THEN NaN ELSE 0 - a

FAdd(a, b) ==
    IF a = NaN \/ b = NaN THEN NaN
    ELSE IF IsInf(a) THEN (IF IsInf(b) /\ a # b THEN NaN ELSE a)
    ELSE IF IsInf(b) THEN b
    ELSE a + b

FSub(a, b) == FAdd(a, FNeg(b))

FMul(a, b) ==
    IF a = NaN \/ b = NaN THEN NaN
    ELSE IF IsInf(a) \/ IsInf(b)
         THEN (IF a = 0 \/ b = 0 THEN NaN
               ELSE IF (a > 0) = (b > 0) THEN PosInf ELSE NegInf)
    ELSE a * b

\* math.Pow(a, n) for a natural exponent n
RECURSIVE FPow(_, _)
FPow(a, n) == IF n = 0 THEN 1 ELSE FMul(a, FPow(a, n - 1))

\* A weight is the quotient num/den of two float64; den > 0 when it is
\* finite, and an infinite or NaN quotient is kept in num with den = 1.
Weight(x) == [num |-> x, den |-> 1]

FDiv(a, b) ==
    IF a = NaN \/ b = NaN THEN Weight(NaN)
    ELSE IF IsInf(a) THEN (IF IsInf(b) THEN Weight(NaN)
                           ELSE IF (a > 0) = (b >= 0) THEN Weight(PosInf)
                           ELSE Weight(NegInf))
    ELSE IF IsInf(b) THEN Weight(0)
    ELSE IF b = 0 THEN (IF a = 0 THEN Weight(NaN)
                        ELSE IF a > 0 THEN Weight(PosInf) ELSE Weight(NegInf))
    ELSE IF b < 0 THEN [num |-> 0 - a, den |-> 0 - b]
    ELSE [num |-> a, den |-> b]

WLt(w1, w2) ==
    IF w1.num = NaN \/ w2.num = NaN THEN FALSE
    ELSE IF IsInf(w1.num) \/ IsInf(w2.num) THEN w1.num < w2.num
    ELSE w1.num * w2.den < w2.num * w1.den

\* ------------------------------------------------------------------ inputs
Values == (0 - 1)..MaxVal
FloatValues == Values \cup {NegInf, PosInf, NaN}
Goroutines == 1..NumGoroutines
Limits == 0..MaxLimit
Percents == {0, 50, 75, 99, 100}

NilFunc == [name |-> "nil", sumWidthPow |-> 0, spacingPow |-> 0]
AvgWidthFunc == [name |-> "AvgWidth", sumWidthPow |-> 0, spacingPow |-> 0]
LatencyWidthFunc == [name |-> "LatencyWidth", sumWidthPow |-> 0, spacingPow |-> 0]
ExpWidthFunc == [name |-> "ExpWidth", sumWidthPow |-> 2, spacingPow |-> 1]
WeightFuncs == {NilFunc, AvgWidthFunc, LatencyWidthFunc, ExpWidthFunc}

\* ------------------------------------------------------------------- state
VARIABLES
    BucketsLimit,   \* Collector.BucketsLimit
    Bucket,         \* the embedded Collector.Bucket: Min, Max, Count, Sum
    Buckets,        \* Collector.Buckets
    RawValues,      \* Collector.RawValues; isNil when disabled
    WeightFunc,     \* Collector.WeightFunc
    status,         \* "ok", or "panic" once a method has panicked
    added,          \* history: how many times each value was added since
                    \* the buckets were last empty or replaced
    merges,         \* history: number of merges Add performed since then
    last,           \* history: the last call, its argument and its result
    mutex,          \* Collector.Mutex: 0 when unlocked, else the goroutine
                    \* that holds it
    pc              \* where each goroutine is in the call it is making

vars == <<BucketsLimit, Bucket, Buckets, RawValues, WeightFunc, status,
          added, merges, last, mutex, pc>>

ZeroBucket == [Min |-> 0, Max |-> 0, Count |-> 0, Sum |-> 0]
Singleton(v) == [Min |-> v, Max |-> v, Count |-> 1, Sum |-> v]
NilRaw == [isNil |-> TRUE, vals |-> <<>>]
EmptyRaw == [isNil |-> FALSE, vals |-> <<>>]
NoCall == [op |-> "none", arg |-> 0, val |-> 0, path |-> "none", mergePoint |-> 0]

RECURSIVE SumOver(_, _)
SumOver(f, S) ==
    IF S = {} THEN 0
    ELSE LET x == CHOOSE y \in S : TRUE IN f[x] + SumOver(f, S \ {x})

NumAdds == SumOver(added, FloatValues)

\* A goroutine that is not inside a call; calls counts the calls it made.
Idle(n) == [at |-> "idle", op |-> "none", arg |-> 0, calls |-> n]

\* ------------------------------------------------------- weight functions
AvgWidth(b1, b2, bTot) == Weight(FSub(b2.Max, b1.Min))

LatencyWidth(b1, b2, bTot) ==
    FDiv(FSub(b2.Max, b1.Min), FSub(b2.Max, bTot.Min))

ExpWidth(sumWidthPow, spacingPow, b1, b2, bTot) ==
    FDiv(FPow(FSub(b2.Max, b1.Min), sumWidthPow),
         FPow(FSub(b2.Max, bTot.Min), spacingPow))

CallWeightFunc(wf, b1, b2, bTot) ==
    IF wf.name = "LatencyWidth" THEN LatencyWidth(b1, b2, bTot)
    ELSE IF wf.name = "ExpWidth"
         THEN ExpWidth(wf.sumWidthPow, wf.spacingPow, b1, b2, bTot)
    ELSE AvgWidth(b1, b2, bTot)

\* --------------------------------------------------------- Add: the merge
NeedsMergeOffByOne(bs, limit) == Len(bs) > limit + 1
NeedsMergeEager(bs, limit) == Len(bs) >= limit

NeedsMerge(bs, limit) == Len(bs) > limit

\* The scan for the merge point.  i and mergePoint are the Go indexes:
\* Go's c.Buckets[i] is bs[i + 1].
RECURSIVE MergeScanLastWins(_, _, _, _, _, _)
MergeScanLastWins(bs, bTot, wf, i, mergePoint, minWeight) ==
    IF i >= Len(bs) THEN mergePoint
    ELSE LET weight == CallWeightFunc(wf, bs[i], bs[i + 1], bTot) IN
         IF mergePoint = 0
         THEN MergeScanLastWins(bs, bTot, wf, i + 1, i, weight)
         ELSE IF ~WLt(minWeight, weight)
              THEN MergeScanLastWins(bs, bTot, wf, i + 1, i, weight)
              ELSE MergeScanLastWins(bs, bTot, wf, i + 1, mergePoint, minWeight)

RECURSIVE MergeScan(_, _, _, _, _, _)
MergeScan(bs, bTot, wf, i, mergePoint, minWeight) ==
    IF i >= Len(bs) THEN mergePoint
    ELSE LET weight == CallWeightFunc(wf, bs[i], bs[i + 1], bTot) IN
         IF mergePoint = 0
         THEN MergeScan(bs, bTot, wf, i + 1, i, weight)
         ELSE IF WLt(weight, minWeight)
              THEN MergeScan(bs, bTot, wf, i + 1, i, weight)
              ELSE MergeScan(bs, bTot, wf, i + 1, mergePoint, minWeight)

MergedBucketDropsSum(b1, b2) ==
    [Count |-> b1.Count + b2.Count, Sum |-> b1.Sum,
     Min |-> b1.Min, Max |-> b2.Max]

MergedBucketKeepsLeftMax(b1, b2) ==
    [Count |-> b1.Count + b2.Count, Sum |-> FAdd(b1.Sum, b2.Sum),
     Min |-> b1.Min, Max |-> b1.Max]

MergedBucket(b1, b2) ==
    [Count |-> b1.Count + b2.Count, Sum |-> FAdd(b1.Sum, b2.Sum),
     Min |-> b1.Min, Max |-> b2.Max]

\* c.Buckets with the pair (mergePoint-1, mergePoint) replaced by merged
MergeAt(bs, mergePoint) ==
    SubSeq(bs, 1, mergePoint - 1)
        \o <<MergedBucket(bs[mergePoint], bs[mergePoint + 1])>>
        \o SubSeq(bs, mergePoint + 2, Len(bs))

\* The deferred function of Add, before c.Unlock().
DeferredMerge(bs, bTot, limit, wf) ==
    IF ~NeedsMerge(bs, limit)
    THEN [Buckets |-> bs, panic |-> FALSE, mergePoint |-> 0]
    ELSE IF Len(bs) >= 2 /\ wf.name = "nil"
    THEN \* c.WeightFunc is nil: the call panics
         [Buckets |-> bs, panic |-> TRUE, mergePoint |-> 0]
    ELSE LET mergePoint == MergeScan(bs, bTot, wf, 1, 0, Weight(0)) IN
         IF mergePoint = 0
         THEN \* c.Buckets[mergePoint-1] is out of range
              [Buckets |-> bs, panic |-> TRUE, mergePoint |-> 0]
         ELSE [Buckets |-> MergeAt(bs, mergePoint), panic |-> FALSE,
               mergePoint |-> mergePoint]

\* ----------------------------------------------------- Add: the placement
RECURSIVE InsertScanAfter(_, _, _)
InsertScanAfter(bs, v, i) ==
    IF i > Len(bs) THEN bs
    ELSE IF FGe(v, bs[i].Min)
         THEN IF FLe(v, bs[i].Max)
              THEN [bs EXCEPT ![i].Count = @ + 1, ![i].Sum = FAdd(@, v)]
              ELSE InsertScanAfter(bs, v, i + 1)
         ELSE SubSeq(bs, 1, i) \o <<Singleton(v)>> \o SubSeq(bs, i + 1, Len(bs))

RECURSIVE InsertScan(_, _, _)
InsertScan(bs, v, i) ==
    IF i > Len(bs) THEN bs
    ELSE IF FGe(v, bs[i].Min)
         THEN IF FLe(v, bs[i].Max)
              THEN [bs EXCEPT ![i].Count = @ + 1, ![i].Sum = FAdd(@, v)]
              ELSE InsertScan(bs, v, i + 1)
         ELSE SubSeq(bs, 1, i - 1) \o <<Singleton(v)>> \o SubSeq(bs, i, Len(bs))

NewMinZero(bTot, v) == [bTot EXCEPT !.Min = 0]

NewMin(bTot, v) == [bTot EXCEPT !.Min = v]

\* The body of Add after c.Count++ and c.Sum += v; bTot carries them.
Place(bs, bTot, limit, wf, v) ==
    IF Len(bs) = 0
    THEN [path |-> "empty",
          BucketsLimit |-> IF limit = 0 THEN DefaultBucketsLimit ELSE limit,
          WeightFunc |-> IF wf.name = "nil" THEN AvgWidthFunc ELSE wf,
          Buckets |-> <<Singleton(v)>>,
          Bucket |-> [bTot EXCEPT !.Min = v, !.Max = v]]
    ELSE IF FLt(v, bTot.Min)
    THEN [path |-> "below", BucketsLimit |-> limit, WeightFunc |-> wf,
          Buckets |-> <<Singleton(v)>> \o bs,
          Bucket |-> NewMin(bTot, v)]
    ELSE IF FGt(v, bTot.Max)
    THEN [path |-> "above", BucketsLimit |-> limit, WeightFunc |-> wf,
          Buckets |-> Append(bs, Singleton(v)),
          Bucket |-> [bTot EXCEPT !.Max = v]]
    ELSE LET scanned == InsertScan(bs, v, 1) IN
         [path |-> IF Len(scanned) > Len(bs) THEN "between" ELSE "within",
          BucketsLimit |-> limit, WeightFunc |-> wf,
          Buckets |-> scanned,
          Bucket |-> bTot]

Counted(bTot, v) == [bTot EXCEPT !.Count = @ + 1, !.Sum = FAdd(@, v)]

Add(v) ==
    /\ status = "ok"
    /\ mutex = 0
    /\ Bucket.Count < MaxAdds
    /\ RawValues.isNil \/ Len(RawValues.vals) < MaxRaw
    /\ LET placed == Place(Buckets, Counted(Bucket, v), BucketsLimit,
                           WeightFunc, v)
           deferred == DeferredMerge(placed.Buckets, placed.Bucket,
                                     placed.BucketsLimit, placed.WeightFunc)
       IN /\ RawValues' = IF RawValues.isNil THEN RawValues
                          ELSE [RawValues EXCEPT !.vals = Append(@, v)]
          /\ BucketsLimit' = placed.BucketsLimit
          /\ WeightFunc' = placed.WeightFunc
          /\ Bucket' = placed.Bucket
          /\ Buckets' = deferred.Buckets
          /\ status' = IF deferred.panic THEN "panic" ELSE "ok"
          /\ mutex' = IF deferred.panic THEN 1 ELSE 0
          /\ merges' = IF deferred.mergePoint > 0 THEN merges + 1 ELSE merges
          /\ last' = [op |-> "Add", arg |-> v, val |-> 0,
                      path |-> placed.path,
                      mergePoint |-> deferred.mergePoint]
    /\ added' = [added EXCEPT ![v] = @ + 1]
    /\ UNCHANGED pc

\* ------------------------------------------------------------- the queries
\* int(percent * float64(c.Count) / 100): the conversion truncates
TargetCount(percent, count) ==
    LET x == percent * count IN
    IF x >= 0 THEN x \div 100 ELSE 0 - ((0 - x) \div 100)

RECURSIVE PercentileScanStrict(_, _, _, _, _)
PercentileScanStrict(bs, i, count, targetCount, cMax) ==
    IF i > Len(bs) THEN cMax
    ELSE IF count + bs[i].Count > targetCount THEN bs[i].Max
    ELSE PercentileScanStrict(bs, i + 1, count + bs[i].Count, targetCount, cMax)

RECURSIVE PercentileScan(_, _, _, _, _)
PercentileScan(bs, i, count, targetCount, cMax) ==
    IF i > Len(bs) THEN cMax
    ELSE IF count + bs[i].Count >= targetCount THEN bs[i].Max
    ELSE PercentileScan(bs, i + 1, count + bs[i].Count, targetCount, cMax)

PercentileOf(bs, bTot, percent) ==
    PercentileScan(bs, 1, 0, TargetCount(percent, bTot.Count), bTot.Max)

RECURSIVE PercentileSumScanStrict(_, _, _, _, _, _)
PercentileSumScanStrict(bs, i, count, sum, targetCount, cSum) ==
    IF i > Len(bs) THEN cSum
    ELSE IF count + bs[i].Count > targetCount THEN FAdd(sum, bs[i].Sum)
    ELSE PercentileSumScanStrict(bs, i + 1, count + bs[i].Count,
                                 FAdd(sum, bs[i].Sum), targetCount, cSum)

RECURSIVE PercentileSumScan(_, _, _, _, _, _)
PercentileSumScan(bs, i, count, sum, targetCount, cSum) ==
    IF i > Len(bs) THEN cSum
    ELSE IF count + bs[i].Count >= targetCount THEN FAdd(sum, bs[i].Sum)
    ELSE PercentileSumScan(bs, i + 1, count + bs[i].Count,
                           FAdd(sum, bs[i].Sum), targetCount, cSum)

PercentileSumOf(bs, bTot, percent) ==
    PercentileSumScan(bs, 1, 0, 0, TargetCount(percent, bTot.Count), bTot.Sum)

PercentileStoresMax(percent) ==
    /\ status = "ok"
    /\ mutex = 0
    /\ last' = [op |-> "Percentile", arg |-> percent,
                val |-> PercentileOf(Buckets, Bucket, percent),
                path |-> "none", mergePoint |-> 0]
    /\ Bucket' = [Bucket EXCEPT !.Max = PercentileOf(Buckets, Bucket, percent)]
    /\ UNCHANGED <<BucketsLimit, Buckets, RawValues, WeightFunc,
                   status, added, merges, mutex, pc>>

Percentile(percent) ==
    /\ status = "ok"
    /\ mutex = 0
    /\ last' = [op |-> "Percentile", arg |-> percent,
                val |-> PercentileOf(Buckets, Bucket, percent),
                path |-> "none", mergePoint |-> 0]
    /\ UNCHANGED <<BucketsLimit, Bucket, Buckets, RawValues, WeightFunc,
                   status, added, merges, mutex, pc>>

PercentileSum(percent) ==
    /\ status = "ok"
    /\ mutex = 0
    /\ last' = [op |-> "PercentileSum", arg |-> percent,
                val |-> PercentileSumOf(Buckets, Bucket, percent),
                path |-> "none", mergePoint |-> 0]
    /\ UNCHANGED <<BucketsLimit, Bucket, Buckets, RawValues, WeightFunc,
                   status, added, merges, mutex, pc>>

\* ------------------------------------------------ LoadFromRuntimeMetrics
\* A metrics.Float64Histogram: ascending boundaries, the first possibly
\* -Inf and the last possibly +Inf, and one count per interval.
Boundaries == {NegInf, 1, 2, PosInf}

RECURSIVE Ascending(_)
Ascending(bs) ==
    \/ Len(bs) <= 1
    \/ bs[1] < bs[2] /\ Ascending(Tail(bs))

Histograms ==
    UNION {
      {[Buckets |-> b, Counts |-> n] :
          b \in {x \in [1..(k + 1) -> Boundaries] : Ascending(x)},
          n \in [1..k -> {0, MaxCount}]} :
      k \in 0..2 }

RECURSIVE LoadLoopSumsInf(_, _, _)
LoadLoopSumsInf(h, i, c) ==
    IF i + 1 >= Len(h.Buckets) THEN c
    ELSE LET b == h.Buckets[i + 2]
             count == h.Counts[i + 1]
             sum == IF count # 0 THEN FMul(count, b) ELSE 0
             bb == [Min |-> c.Bucket.Max, Max |-> b, Count |-> count,
                    Sum |-> sum]
         IN LoadLoopSumsInf(h, i + 1,
                     [Bucket |-> [c.Bucket EXCEPT
                                     !.Sum = IF count # 0
                                             THEN FAdd(@, sum) ELSE @,
                                     !.Count = @ + count,
                                     !.Max = b],
                      Buckets |-> Append(c.Buckets, bb)])

\* The loop over h.Buckets[1:]; i is the Go index, c the fields written.
RECURSIVE LoadLoop(_, _, _)
LoadLoop(h, i, c) ==
    IF i + 1 >= Len(h.Buckets) THEN c
    ELSE LET b == h.Buckets[i + 2]
             count == h.Counts[i + 1]
             sum == IF count # 0 /\ ~IsInf(b) THEN FMul(count, b) ELSE 0
             bb == [Min |-> c.Bucket.Max, Max |-> b, Count |-> count,
                    Sum |-> sum]
         IN LoadLoop(h, i + 1,
                     [Bucket |-> [c.Bucket EXCEPT
                                     !.Sum = IF count # 0 /\ ~IsInf(b)
                                             THEN FAdd(@, sum) ELSE @,
                                     !.Count = @ + count,
                                     !.Max = b],
                      Buckets |-> Append(c.Buckets, bb)])

LoadFromRuntimeMetrics(h) ==
    /\ status = "ok"
    /\ mutex = 0
    /\ LET c == LoadLoop(h, 0,
                         [Bucket |-> [Min |-> h.Buckets[1],
                                      Max |-> h.Buckets[1],
                                      Count |-> 0, Sum |-> 0],
                          Buckets |-> <<>>])
       IN /\ Buckets' = c.Buckets
          /\ Bucket' = c.Bucket
    /\ BucketsLimit' = Len(h.Buckets)
    /\ last' = [op |-> "Load", arg |-> h, val |-> 0,
                path |-> "none", mergePoint |-> 0]
    /\ added' = [v \in FloatValues |-> 0]
    /\ merges' = 0
    /\ UNCHANGED <<RawValues, WeightFunc, status, mutex, pc>>

\* ------------------------------------------------------ the specifications
Init ==
    /\ BucketsLimit \in Limits
    /\ WeightFunc \in WeightFuncs
    /\ RawValues \in {NilRaw, EmptyRaw}
    /\ Bucket = ZeroBucket
    /\ Buckets = <<>>
    /\ status = "ok"
    /\ added = [v \in FloatValues |-> 0]
    /\ merges = 0
    /\ last = NoCall
    /\ mutex = 0
    /\ pc = [g \in Goroutines |-> Idle(0)]

Next ==
    \/ \E v \in Values : Add(v)
    \/ \E p \in Percents : Percentile(p)
    \/ \E p \in Percents : PercentileSum(p)

Spec == Init /\ [][Next]_vars

\* A collector that starts as the zero value and may also be loaded from
\* a runtime/metrics histogram.
InitZero ==
    /\ BucketsLimit = 0
    /\ WeightFunc = NilFunc
    /\ RawValues = NilRaw
    /\ Bucket = ZeroBucket
    /\ Buckets = <<>>
    /\ status = "ok"
    /\ added = [v \in FloatValues |-> 0]
    /\ merges = 0
    /\ last = NoCall
    /\ mutex = 0
    /\ pc = [g \in Goroutines |-> Idle(0)]

NextLoad ==
    \/ \E v \in Values : Add(v)
    \/ \E h \in Histograms : LoadFromRuntimeMetrics(h)
    \/ \E p \in Percents : Percentile(p)
    \/ \E p \in Percents : PercentileSum(p)

SpecLoad == InitZero /\ [][NextLoad]_vars

\* A collector that is also given NaN, +Inf and -Inf.
NextFloat == \E v \in FloatValues : Add(v)

SpecFloat == Init /\ [][NextFloat]_vars

\* Calls made from several goroutines.  Every method starts with c.Lock();
\* a goroutine waits until the mutex is free, runs the body while holding
\* it and unlocks at the end: by defer c.Unlock() in the queries and in
\* LoadFromRuntimeMetrics, by the last statement of the deferred function
\* in Add.
ConcHistograms ==
    {h \in Histograms : h.Buckets[1] = 1 /\ \A i \in 1..Len(h.Counts) : h.Counts[i] = 0}

ConcPercents == {50}

Calls ==
    {[op |-> "Add", arg |-> v] : v \in Values}
        \cup {[op |-> "Percentile", arg |-> p] : p \in ConcPercents}
        \cup {[op |-> "PercentileSum", arg |-> p] : p \in ConcPercents}
        \cup {[op |-> "Load", arg |-> h] : h \in ConcHistograms}

\* goroutine g calls a method and reaches c.Lock()
Call(g, call) ==
    /\ pc[g].at = "idle"
    /\ pc[g].calls < MaxCalls
    /\ pc' = [pc EXCEPT ![g] = [at |-> "waiting", op |-> call.op,
                                arg |-> call.arg, calls |-> @.calls + 1]]
    /\ UNCHANGED <<BucketsLimit, Bucket, Buckets, RawValues, WeightFunc,
                   status, added, merges, last, mutex>>

\* c.Lock() returns in goroutine g
Lock(g) ==
    /\ pc[g].at = "waiting"
    /\ mutex = 0
    /\ mutex' = g
    /\ pc' = [pc EXCEPT ![g].at = "body"]
    /\ UNCHANGED <<BucketsLimit, Bucket, Buckets, RawValues, WeightFunc,
                   status, added, merges, last>>

\* Add up to its return statement: the log, the totals and the placement
AddBody(g) ==
    /\ pc[g].at = "body"
    /\ pc[g].op = "Add"
    /\ mutex = g
    /\ LET v == pc[g].arg
           placed == Place(Buckets, Counted(Bucket, v), BucketsLimit,
                           WeightFunc, v)
       IN /\ RawValues' = IF RawValues.isNil THEN RawValues
                          ELSE [RawValues EXCEPT !.vals = Append(@, v)]
          /\ BucketsLimit' = placed.BucketsLimit
          /\ WeightFunc' = placed.WeightFunc
          /\ Bucket' = placed.Bucket
          /\ Buckets' = placed.Buckets
          /\ last' = [op |-> "Add", arg |-> v, val |-> 0,
                      path |-> placed.path, mergePoint |-> 0]
          /\ added' = [added EXCEPT ![v] = @ + 1]
    /\ pc' = [pc EXCEPT ![g].at = "deferred"]
    /\ UNCHANGED <<status, merges, mutex>>

\* Add's deferred function: the merge, then c.Unlock(); a panic in the
\* merge leaves the function before c.Unlock()
AddDeferred(g) ==
    /\ pc[g].at = "deferred"
    /\ mutex = g
    /\ LET deferred == DeferredMerge(Buckets, Bucket, BucketsLimit, WeightFunc)
       IN /\ Buckets' = deferred.Buckets
          /\ status' = IF deferred.panic THEN "panic" ELSE status
          /\ mutex' = IF deferred.panic THEN g ELSE 0
          /\ merges' = IF deferred.mergePoint > 0 THEN merges + 1 ELSE merges
          /\ last' = [last EXCEPT !.mergePoint = deferred.mergePoint]
          /\ pc' = [pc EXCEPT ![g] = IF deferred.panic
                                     THEN [@ EXCEPT !.at = "panicked"]
                                     ELSE Idle(@.calls)]
    /\ UNCHANGED <<BucketsLimit, Bucket, RawValues, WeightFunc, added>>

\* Percentile or PercentileSum between c.Lock() and the deferred c.Unlock()
QueryBody(g) ==
    /\ pc[g].at = "body"
    /\ pc[g].op \in {"Percentile", "PercentileSum"}
    /\ mutex = g
    /\ last' = [op |-> pc[g].op, arg |-> pc[g].arg,
                val |-> IF pc[g].op = "Percentile"
                        THEN PercentileOf(Buckets, Bucket, pc[g].arg)
                        ELSE PercentileSumOf(Buckets, Bucket, pc[g].arg),
                path |-> "none", mergePoint |-> 0]
    /\ mutex' = 0
    /\ pc' = [pc EXCEPT ![g] = Idle(@.calls)]
    /\ UNCHANGED <<BucketsLimit, Bucket, Buckets, RawValues, WeightFunc,
                   status, added, merges>>

\* LoadFromRuntimeMetrics between c.Lock() and the deferred c.Unlock()
LoadBody(g) ==
    /\ pc[g].at = "body"
    /\ pc[g].op = "Load"
    /\ mutex = g
    /\ LET h == pc[g].arg
           c == LoadLoop(h, 0,
                         [Bucket |-> [Min |-> h.Buckets[1],
                                      Max |-> h.Buckets[1],
                                      Count |-> 0, Sum |-> 0],
                          Buckets |-> <<>>])
       IN /\ Buckets' = c.Buckets
          /\ Bucket' = c.Bucket
          /\ BucketsLimit' = Len(h.Buckets)
          /\ last' = [op |-> "Load", arg |-> h, val |-> 0,
                      path |-> "none", mergePoint |-> 0]
    /\ added' = [v \in FloatValues |-> 0]
    /\ merges' = 0
    /\ mutex' = 0
    /\ pc' = [pc EXCEPT ![g] = Idle(@.calls)]
    /\ UNCHANGED <<RawValues, WeightFunc, status>>

NextConc ==
    \/ \E g \in Goroutines : \E call \in Calls : Call(g, call)
    \/ \E g \in Goroutines : Lock(g)
    \/ \E g \in Goroutines : AddBody(g)
    \/ \E g \in Goroutines : AddDeferred(g)
    \/ \E g \in Goroutines : QueryBody(g)
    \/ \E g \in Goroutines : LoadBody(g)

SpecConc == InitZero /\ [][NextConc]_vars

\* ------------------------------------------------------------- properties
RECURSIVE SumCount(_)
SumCount(bs) == IF bs = <<>> THEN 0 ELSE Head(bs).Count + SumCount(Tail(bs))

RECURSIVE SumSum(_)
SumSum(bs) == IF bs = <<>> THEN 0 ELSE Head(bs).Sum + SumSum(Tail(bs))

Distinct == {v \in Values : added[v] > 0}
TotalAdded == SumOver([v \in Values |-> v * added[v]], Values)
Smallest == CHOOSE v \in Distinct : \A w \in Distinct : v <= w
Largest == CHOOSE v \in Distinct : \A w \in Distinct : v >= w

\* C1: after every Add the number of buckets is at most BucketsLimit, and
\* BucketsLimit is then at least 1 (a configured 0 has become the default).
C1_BucketsWithinLimit ==
    NumAdds > 0 =>
        /\ Len(Buckets) <= BucketsLimit
        /\ BucketsLimit \in (1..MaxLimit) \cup {DefaultBucketsLimit}

C1_Witness ==
    /\ last.op = "Add"
    /\ last.mergePoint > 0
    /\ Len(Buckets) = BucketsLimit
    /\ Len(Buckets) >= 2

\* C2: after every Add the bucket counts add up to the collector's Count,
\* which is the number of Add calls, and the bucket sums add up to the
\* collector's Sum, which is the sum of the added values.
C2_TotalsPreserved ==
    NumAdds > 0 =>
        /\ SumCount(Buckets) = Bucket.Count
        /\ Bucket.Count = NumAdds
        /\ SumSum(Buckets) = Bucket.Sum
        /\ Bucket.Sum = TotalAdded

C2_Witness ==
    /\ last.op = "Add"
    /\ merges >= 2
    /\ Len(Buckets) >= 2
    /\ Bucket.Sum # 0
    /\ \E i \in 1..Len(Buckets) : Buckets[i].Count >= 3

\* C3: after every Add the buckets are sorted ascending by Min, every
\* bucket has Min <= Max, and consecutive buckets do not overlap.
C3_SortedNoOverlap ==
    NumAdds > 0 =>
        /\ \A i \in 1..Len(Buckets) : FLe(Buckets[i].Min, Buckets[i].Max)
        /\ \A i \in 1..(Len(Buckets) - 1) :
              /\ FLe(Buckets[i].Min, Buckets[i + 1].Min)
              /\ FLe(Buckets[i].Max, Buckets[i + 1].Min)

C3_Witness ==
    /\ last.op = "Add"
    /\ last.path = "between"
    /\ last.mergePoint > 0
    /\ Len(Buckets) >= 2
    /\ \E i \in 1..Len(Buckets) : Buckets[i].Min < Buckets[i].Max

\* C4: once a value has been added, the first bucket's Min is the
\* collector's Min, the last bucket's Max is the collector's Max, and they
\* are the smallest and the largest value added; a new minimum v sets Min
\* to v.
C4_ExtremesTracked ==
    NumAdds > 0 =>
        /\ FEq(Buckets[1].Min, Bucket.Min)
        /\ FEq(Buckets[Len(Buckets)].Max, Bucket.Max)
        /\ Bucket.Min = Smallest
        /\ Bucket.Max = Largest
        /\ (last.op = "Add" /\ last.path = "below" => Bucket.Min = last.arg)

C4_Witness ==
    /\ last.op = "Add"
    /\ last.path = "below"
    /\ last.arg # 0
    /\ Bucket.Min = last.arg
    /\ merges > 0

\* C5: starting from the zero value, in every state reached by Add and
\* LoadFromRuntimeMetrics calls, Add completes without a panic.
C5_AddAlwaysSucceeds == status = "ok"

\* C6: while BucketsLimit (20 when configured 0) is at least the number of
\* distinct values added, no merge has been performed and the buckets are
\* exactly one bucket [d, d] per distinct value d, ascending, with Count
\* the number of times d was added and Sum d times that number.
EffectiveLimit ==
    IF BucketsLimit = 0 THEN DefaultBucketsLimit ELSE BucketsLimit

C6_ExactWithinLimit ==
    Cardinality(Distinct) <= EffectiveLimit =>
        /\ merges = 0
        /\ Len(Buckets) = Cardinality(Distinct)
        /\ \A i \in 1..Len(Buckets) :
              /\ Buckets[i].Min = Buckets[i].Max
              /\ Buckets[i].Min \in Distinct
              /\ Buckets[i].Count = added[Buckets[i].Min]
              /\ Buckets[i].Sum = Buckets[i].Min * added[Buckets[i].Min]
        /\ \A i \in 1..(Len(Buckets) - 1) : Buckets[i].Min < Buckets[i + 1].Min

C6_Witness ==
    /\ last.op = "Add"
    /\ Cardinality(Distinct) = BucketsLimit
    /\ Len(Buckets) >= 3
    /\ \E v \in Values : added[v] >= 2

\* C7: a merge step weighs every adjacent pair with the collector's
\* aggregate bucket as third argument, picks the pair of strictly smallest
\* weight, the leftmost on ties, and replaces exactly that pair by one
\* bucket [left.Min, right.Max] holding the two counts and sums added up;
\* the other buckets keep their place.
C7_MergeStepAction ==
    (last'.op = "Add" /\ last'.mergePoint > 0) =>
        LET v == last'.arg
            placed == Place(Buckets, Counted(Bucket, v), BucketsLimit,
                            WeightFunc, v)
            pre == placed.Buckets
            w(j) == CallWeightFunc(placed.WeightFunc, pre[j], pre[j + 1],
                                   placed.Bucket)
        IN /\ Len(pre) > placed.BucketsLimit
           /\ \E m \in 1..(Len(pre) - 1) :
                 /\ \A j \in 1..(m - 1) : WLt(w(m), w(j))
                 /\ \A j \in (m + 1)..(Len(pre) - 1) : ~WLt(w(j), w(m))
                 /\ Len(Buckets') = Len(pre) - 1
                 /\ Buckets'[m] = [Min |-> pre[m].Min,
                                   Max |-> pre[m + 1].Max,
                                   Count |-> pre[m].Count + pre[m + 1].Count,
                                   Sum |-> pre[m].Sum + pre[m + 1].Sum]
                 /\ \A j \in 1..(m - 1) : Buckets'[j] = pre[j]
                 /\ \A j \in (m + 1)..(Len(pre) - 1) : Buckets'[j] = pre[j + 1]

C7_MergeStep == [][C7_MergeStepAction]_vars

C7_Witness ==
    /\ last.op = "Add"
    /\ last.mergePoint >= 2
    /\ Len(Buckets) >= 2
    /\ merges >= 2
    /\ WeightFunc = AvgWidthFunc

\* Number of observations in the first i buckets, and their sum.
RECURSIVE PrefixCount(_, _)
PrefixCount(bs, i) == IF i = 0 THEN 0 ELSE bs[i].Count + PrefixCount(bs, i - 1)

RECURSIVE PrefixSum(_, _)
PrefixSum(bs, i) == IF i = 0 THEN 0 ELSE bs[i].Sum + PrefixSum(bs, i - 1)

\* The buckets at which the running count has reached floor(p * Count / 100)
Reaching(p) ==
    {i \in 1..Len(Buckets) :
        PrefixCount(Buckets, i) >= (p * Bucket.Count) \div 100}

FirstReaching(p) == CHOOSE i \in Reaching(p) : \A j \in Reaching(p) : i <= j

\* C8: Percentile(p) returns the Max of the first bucket at which the
\* running count is at least floor(p * Count / 100), and the collector's
\* Max when no bucket reaches it.
C8_PercentileResult ==
    last.op = "Percentile" =>
        last.val = IF Reaching(last.arg) = {} THEN Bucket.Max
                   ELSE Buckets[FirstReaching(last.arg)].Max

C8_Witness ==
    /\ last.op = "Percentile"
    /\ (last.arg * Bucket.Count) % 100 # 0
    /\ Reaching(last.arg) # {}
    /\ FirstReaching(last.arg) >= 2
    /\ FirstReaching(last.arg) < Len(Buckets)
    /\ last.val = Buckets[FirstReaching(last.arg)].Max

\* C9: PercentileSum(p) returns the sum of the bucket Sums up to and
\* including the first bucket at which the running count is at least
\* floor(p * Count / 100), and the collector's Sum when none reaches it.
C9_PercentileSumResult ==
    last.op = "PercentileSum" =>
        last.val = IF Reaching(last.arg) = {} THEN Bucket.Sum
                   ELSE PrefixSum(Buckets, FirstReaching(last.arg))

C9_Witness ==
    /\ last.op = "PercentileSum"
    /\ (last.arg * Bucket.Count) % 100 # 0
    /\ Reaching(last.arg) # {}
    /\ FirstReaching(last.arg) >= 2
    /\ FirstReaching(last.arg) < Len(Buckets)
    /\ last.val = PrefixSum(Buckets, FirstReaching(last.arg))
    /\ last.val # Bucket.Sum
    /\ last.val # Buckets[1].Sum

\* C10: in a state reached by Add calls, Percentile is non-decreasing in
\* p: the result for p is at least the result for every smaller p and at
\* most the result for every larger p.
C10_PercentileMonotone ==
    last.op = "Percentile" =>
        \A q \in Percents :
            /\ q <= last.arg => FLe(PercentileOf(Buckets, Bucket, q), last.val)
            /\ q >= last.arg => FLe(last.val, PercentileOf(Buckets, Bucket, q))

C10_Witness ==
    /\ last.op = "Percentile"
    /\ merges > 0
    /\ \E q \in Percents :
          q < last.arg /\ PercentileOf(Buckets, Bucket, q) < last.val
    /\ \E q \in Percents :
          q > last.arg /\ PercentileOf(Buckets, Bucket, q) > last.val

\* C11: whenever the collector's Count is 0, Percentile and PercentileSum
\* return 0 for every p, without failing.
C11_ZeroCountQueries ==
    (Bucket.Count = 0 /\ last.op \in {"Percentile", "PercentileSum"}) =>
        /\ status = "ok"
        /\ last.val = 0

\* C12: Percentile and PercentileSum leave BucketsLimit, Min, Max, Count,
\* Sum, Buckets, RawValues and WeightFunc unchanged, and a query repeated
\* right after itself returns the same result.
C12_QueryAction ==
    last'.op \in {"Percentile", "PercentileSum"} =>
        /\ UNCHANGED <<BucketsLimit, Bucket, Buckets, RawValues, WeightFunc>>
        /\ mutex' = 0
        /\ (last.op = last'.op /\ last.arg = last'.arg =>
               last'.val = last.val)

C12_QueriesReadOnly == [][C12_QueryAction]_vars

C12_Witness ==
    /\ last.op = "PercentileSum"
    /\ last.val # 0
    /\ ~RawValues.isNil
    /\ Len(RawValues.vals) >= 2
    /\ Len(Buckets) >= 2
    /\ merges > 0

\* C13: when the denominator b2.Max - total.Min of LatencyWidth or ExpWidth
\* is zero the weight is +Inf, never NaN or -Inf, and the merge step does
\* not select such a pair unless it is the only pair.
C13_ZeroDenominatorAction ==
    (last'.op = "Add" /\ last'.mergePoint > 0
        /\ WeightFunc.name \in {"LatencyWidth", "ExpWidth"}) =>
        LET v == last'.arg
            placed == Place(Buckets, Counted(Bucket, v), BucketsLimit,
                            WeightFunc, v)
            pre == placed.Buckets
        IN \A j \in 1..(Len(pre) - 1) :
              FSub(pre[j + 1].Max, placed.Bucket.Min) = 0 =>
                  /\ CallWeightFunc(placed.WeightFunc, pre[j], pre[j + 1],
                                    placed.Bucket) = Weight(PosInf)
                  /\ (last'.mergePoint = j => Len(pre) = 2)

C13_ZeroDenominator == [][C13_ZeroDenominatorAction]_vars

\* C18: Add accepts NaN, +Inf and -Inf without failing, and after it and
\* after every later Add the buckets are sorted ascending and do not
\* overlap, the first bucket's Min is the collector's Min, the last
\* bucket's Max is the collector's Max (a NaN counting as equal to a NaN),
\* and the bucket counts add up to Count.
C18_FloatInvariants ==
    NumAdds > 0 =>
        /\ status = "ok"
        /\ \A i \in 1..(Len(Buckets) - 1) :
              /\ FLe(Buckets[i].Min, Buckets[i + 1].Min)
              /\ FLe(Buckets[i].Max, Buckets[i + 1].Min)
        /\ Buckets[1].Min = Bucket.Min
        /\ Buckets[Len(Buckets)].Max = Bucket.Max
        /\ SumCount(Buckets) = Bucket.Count

\* C15: after LoadFromRuntimeMetrics, whatever the state before, there is
\* one bucket per interval of the snapshot with Min the lower boundary,
\* Max the upper boundary, Count the interval's count and Sum that count
\* times the upper boundary (0 when the upper boundary is infinite);
\* BucketsLimit is the number of boundaries, Min the first and Max the
\* last boundary, Count and Sum the totals over the buckets.
C15_LoadReplaces ==
    last.op = "Load" =>
        LET h == last.arg
            n == Len(h.Buckets) - 1
        IN /\ Len(Buckets) = n
           /\ BucketsLimit = Len(h.Buckets)
           /\ \A i \in 1..n :
                 Buckets[i] =
                     [Min |-> h.Buckets[i],
                      Max |-> h.Buckets[i + 1],
                      Count |-> h.Counts[i],
                      Sum |-> IF IsInf(h.Buckets[i + 1]) THEN 0
                              ELSE h.Counts[i] * h.Buckets[i + 1]]
           /\ Bucket.Min = h.Buckets[1]
           /\ Bucket.Max = h.Buckets[n + 1]
           /\ Bucket.Count = SumCount(Buckets)
           /\ Bucket.Sum = SumSum(Buckets)

C15_Witness ==
    /\ last.op = "Load"
    /\ WeightFunc = AvgWidthFunc
    /\ Len(Buckets) = 2
    /\ Buckets[1].Sum > 0
    /\ Buckets[2].Max = PosInf
    /\ Buckets[2].Count > 0
    /\ Bucket.Sum = Buckets[1].Sum

\* C16: Add places v by exactly one of four cases, in this order: no
\* buckets (defaults applied, singleton created); v < Min (singleton
\* prepended); v > Max (singleton appended); otherwise the first bucket
\* whose closed interval contains v gets Count + 1 and Sum + v, or a
\* singleton is inserted right before the first bucket whose Min exceeds
\* v.  Before the merge the bucket count grows by at most one, and in the
\* containing case no boundary, no other bucket, and neither Min nor Max
\* changes.
Containing(bs, v) == {i \in 1..Len(bs) : bs[i].Min <= v /\ v <= bs[i].Max}
Exceeding(bs, v) == {i \in 1..Len(bs) : bs[i].Min > v}
Least(S) == CHOOSE i \in S : \A j \in S : i <= j

C16_PlacementAction ==
    last'.op = "Add" =>
        LET v == last'.arg
            bs == Buckets
            n == Len(bs)
            case == IF n = 0 THEN "empty"
                    ELSE IF v < Bucket.Min THEN "below"
                    ELSE IF v > Bucket.Max THEN "above"
                    ELSE IF Containing(bs, v) # {} THEN "within"
                    ELSE "between"
            expected ==
                IF case = "empty" THEN <<Singleton(v)>>
                ELSE IF case = "below" THEN <<Singleton(v)>> \o bs
                ELSE IF case = "above" THEN bs \o <<Singleton(v)>>
                ELSE IF case = "within"
                THEN LET i == Least(Containing(bs, v)) IN
                     [j \in 1..n |->
                         IF j = i THEN [Min |-> bs[i].Min, Max |-> bs[i].Max,
                                        Count |-> bs[i].Count + 1,
                                        Sum |-> bs[i].Sum + v]
                         ELSE bs[j]]
                ELSE LET k == Least(Exceeding(bs, v)) IN
                     SubSeq(bs, 1, k - 1) \o <<Singleton(v)>>
                         \o SubSeq(bs, k, n)
        IN /\ last'.path = case
           /\ Len(expected) <= n + 1
           /\ Buckets' = IF last'.mergePoint > 0
                         THEN MergeAt(expected, last'.mergePoint)
                         ELSE expected
           /\ Bucket'.Count = Bucket.Count + 1
           /\ Bucket'.Sum = Bucket.Sum + v
           /\ case = "empty" =>
                 /\ BucketsLimit' = IF BucketsLimit = 0
                                    THEN DefaultBucketsLimit ELSE BucketsLimit
                 /\ WeightFunc' = IF WeightFunc = NilFunc
                                  THEN AvgWidthFunc ELSE WeightFunc
                 /\ Bucket'.Min = v /\ Bucket'.Max = v
           /\ case # "empty" =>
                 /\ BucketsLimit' = BucketsLimit
                 /\ WeightFunc' = WeightFunc
           /\ case = "below" => Bucket'.Min = v /\ Bucket'.Max = Bucket.Max
           /\ case = "above" => Bucket'.Max = v /\ Bucket'.Min = Bucket.Min
           /\ case = "between" =>
                 Bucket'.Min = Bucket.Min /\ Bucket'.Max = Bucket.Max
           /\ case = "within" =>
                 /\ last'.mergePoint = 0
                 /\ Bucket'.Min = Bucket.Min /\ Bucket'.Max = Bucket.Max
                 /\ Len(Buckets') = n
                 /\ \A j \in 1..n :
                       /\ Buckets'[j].Min = bs[j].Min
                       /\ Buckets'[j].Max = bs[j].Max
                       /\ j # Least(Containing(bs, v)) => Buckets'[j] = bs[j]

C16_Placement == [][C16_PlacementAction]_vars

C16_Witness ==
    /\ last.op = "Add"
    /\ last.path = "within"
    /\ merges > 0
    /\ Len(Buckets) >= 2
    /\ \E i \in 1..Len(Buckets) :
          /\ Buckets[i].Min < last.arg
          /\ last.arg < Buckets[i].Max

\* C17: the merge step runs at most once per Add and only when the list is
\* longer than BucketsLimit, and takes exactly one bucket away; so the
\* number of buckets never decreases from one Add to the next, and once
\* it has reached BucketsLimit it is BucketsLimit after every later Add.
C17_MergeOnceAction ==
    last'.op = "Add" =>
        LET v == last'.arg
            placed == Place(Buckets, Counted(Bucket, v), BucketsLimit,
                            WeightFunc, v)
            merged == last'.mergePoint > 0
        IN /\ merges' = merges + (IF merged THEN 1 ELSE 0)
           /\ merged <=> Len(placed.Buckets) > BucketsLimit'
           /\ merged => Len(Buckets') = Len(placed.Buckets) - 1
           /\ ~merged => Len(Buckets') = Len(placed.Buckets)
           /\ Len(Buckets') >= Len(Buckets)
           /\ Len(Buckets') <= BucketsLimit'
           /\ (NumAdds > 0 /\ Len(Buckets) = BucketsLimit) =>
                 Len(Buckets') = BucketsLimit'

C17_MergeOnce == [][C17_MergeOnceAction]_vars

C17_Witness ==
    /\ last.op = "Add"
    /\ merges >= 2
    /\ Len(Buckets) = BucketsLimit
    /\ Len(Buckets) >= 2
    /\ last.mergePoint = 0

\* C19: in every state reached by Add calls every bucket has Count >= 1
\* and consecutive buckets are strictly separated; so for every adjacent
\* pair a merge step weighs, b2.Max > total.Min and the denominator of
\* LatencyWidth and ExpWidth is strictly positive.
C19_PositiveDenominatorAction ==
    last'.op = "Add" =>
        LET v == last'.arg
            placed == Place(Buckets, Counted(Bucket, v), BucketsLimit,
                            WeightFunc, v)
            pre == placed.Buckets
        IN /\ \A i \in 1..Len(Buckets') : Buckets'[i].Count >= 1
           /\ \A i \in 1..(Len(Buckets') - 1) :
                 Buckets'[i].Max < Buckets'[i + 1].Min
           /\ last'.mergePoint > 0 =>
                 \A j \in 1..(Len(pre) - 1) :
                    /\ pre[j + 1].Max > placed.Bucket.Min
                    /\ FSub(pre[j + 1].Max, placed.Bucket.Min) > 0
                    /\ CallWeightFunc(LatencyWidthFunc, pre[j], pre[j + 1],
                                      placed.Bucket).num \notin {NaN, PosInf, NegInf}
                    /\ CallWeightFunc(ExpWidthFunc, pre[j], pre[j + 1],
                                      placed.Bucket).num \notin {NaN, PosInf, NegInf}

C19_PositiveDenominator == [][C19_PositiveDenominatorAction]_vars

C19_Witness ==
    /\ last.op = "Add"
    /\ last.mergePoint >= 2
    /\ WeightFunc = LatencyWidthFunc
    /\ Len(Buckets) >= 2
    /\ Bucket.Min < 0

\* C20: in every state reached by Add calls each bucket's Count is the
\* number of added values within [Min, Max] and every added value lies in
\* exactly one bucket; so for every p at least floor(p * Count / 100) of
\* the added values are <= Percentile(p), Percentile(100) is Max and
\* PercentileSum(100) is Sum.
AddedWithin(lo, hi) ==
    SumOver([v \in Values |-> IF lo <= v /\ v <= hi THEN added[v] ELSE 0],
            Values)

C20_CountsMatchValues ==
    /\ \A i \in 1..Len(Buckets) :
          Buckets[i].Count = AddedWithin(Buckets[i].Min, Buckets[i].Max)
    /\ \A v \in Distinct : Cardinality(Containing(Buckets, v)) = 1
    /\ \A p \in Percents :
          AddedWithin(0 - 1, PercentileOf(Buckets, Bucket, p))
              >= (p * Bucket.Count) \div 100
    /\ PercentileOf(Buckets, Bucket, 100) = Bucket.Max
    /\ PercentileSumOf(Buckets, Bucket, 100) = Bucket.Sum
    /\ (last.op = "Percentile" =>
           AddedWithin(0 - 1, last.val) >= (last.arg * Bucket.Count) \div 100)

C20_Witness ==
    /\ last.op = "Percentile"
    /\ last.arg = 75
    /\ merges > 0
    /\ Len(Buckets) >= 2
    /\ last.val < Bucket.Max
    /\ AddedWithin(0 - 1, last.val) >= 3

\* C14: every method holds the collector's mutex for its whole body
\* (Add's merge included) and releases it on every way out: at most one
\* call is inside its body at a time, nobody who could take the lock sees
\* more than BucketsLimit buckets, no caller waits for a lock that will
\* never be released, and when no call is in progress the totals are
\* those of a serial execution.
InBody(g) == pc[g].at \in {"body", "deferred"}

C14_MutualExclusion ==
    /\ \A g \in Goroutines : InBody(g) => mutex = g
    /\ \A g1, g2 \in Goroutines : InBody(g1) /\ InBody(g2) => g1 = g2

C14_ObservedWithinLimit ==
    mutex = 0 => /\ Len(Buckets) <= EffectiveLimit
                 /\ SumCount(Buckets) = Bucket.Count
                 /\ SumSum(Buckets) = Bucket.Sum

C14_LockReleased ==
    mutex # 0 => InBody(mutex)

C14_Serialized ==
    /\ C14_MutualExclusion
    /\ C14_ObservedWithinLimit
    /\ C14_LockReleased

====
